---- MODULE Spec2Model ----
(***************************************************************************)
(* Session cache of the Instagram uploader scripts app.py and app2.py:     *)
(* save_session / load_session / login / get_api and the two button        *)
(* handlers that use them ("Post to Instagram", "Upload Reels").           *)
(*                                                                         *)
(* One action is one script run in which a button was pressed.  The        *)
(* scripts are single threaded, so a handler runs to completion; what the  *)
(* file system, the account service and the upload do in that run is the   *)
(* action's input (the record e).  The functions of the scripts are        *)
(* operators from a context c (the session file and what the run did so    *)
(* far) to a result: the new context, the returned value, the exception    *)
(* raised ("none" when the function returns).                              *)
(***************************************************************************)
EXTENDS Integers, Sequences, FiniteSets, TLC

VARIABLES variant, store, last, session_state, tmp, script

vars == <<variant, store, last, session_state, tmp, script>>

\* ------------------------------------------------------------------ bounds

\* Login sessions the account service can hand out (settings/cookie values).
MaxSession == 2

\* Directory names tempfile.mkdtemp can hand out.
MaxDir == 2

Sessions == 1..MaxSession

\* ------------------------------------------------------------ python values

\* A Client object: the two attributes the scripts persist.
Client(settings, cookie) == [settings |-> settings, cookie_jar |-> cookie]

\* Python's None, where a Client is expected.
None == [settings |-> 0, cookie_jar |-> 0]

Clients == {Client(s, k) : s \in Sessions, k \in Sessions}

\* The names each script imports from instagram_private_api.
imports_app == {"Client", "ClientCookieExpiredError", "ClientLoginError"}

imports_app2 == {"Client", "ClientLoginError", "ClientError"}

\* isinstance(exc, cls) for the exception classes the scripts meet.
IsInstance(exc, cls) ==
    \/ cls = "Exception"
    \/ exc = cls
    \/ /\ cls = "ClientError"
       /\ exc \in {"ClientLoginError", "ClientCookieExpiredError",
                   "ClientCheckpointRequiredError"}

\* An `except (n1, n2, ...)` clause: Python first evaluates the names; a
\* name that is not bound raises NameError, which leaves the whole try
\* statement (later except clauses of the same try do not see it).
ExceptClause(names, imports, exc) ==
    IF \E i \in 1..Len(names) : names[i] \notin imports /\ names[i] # "Exception"
    THEN "NameError"
    ELSE IF \E i \in 1..Len(names) : IsInstance(exc, names[i])
         THEN "match"
         ELSE "nomatch"

\* ------------------------------------------------------------------ pickle

\* The session file: absent, or a sequence of pickle opcodes.
NoFile == [exists |-> FALSE, bytes |-> <<>>]

File(bytes) == [exists |-> TRUE, bytes |-> bytes]

\* pickle.dump of a dict given as its <<key, value>> items in order: a
\* header, one opcode per item, the STOP opcode.
pickle_dump(d) ==
    <<<<"PROTO", "", 0>>>>
      \o [i \in 1..Len(d) |-> <<"ITEM", d[i][1], d[i][2]>>]
      \o <<<<"STOP", "", 0>>>>

\* Whether pickle.load accepts the bytes: it needs the header and the STOP
\* opcode (a truncated stream raises EOFError / UnpicklingError).
pickle_ok(b) ==
    /\ Len(b) >= 2
    /\ b[1][1] = "PROTO"
    /\ b[Len(b)][1] = "STOP"
    /\ \A i \in 2..(Len(b) - 1) : b[i][1] = "ITEM"

\* pickle.load of accepted bytes: the dict, as a function from its keys.
pickle_load(b) ==
    LET keys == {b[i][2] : i \in 2..(Len(b) - 1)}
        at(k) == CHOOSE i \in 2..(Len(b) - 1) :
                    /\ b[i][2] = k
                    /\ \A j \in (i + 1)..(Len(b) - 1) : b[j][2] # k
    IN [k \in keys |-> b[at(k)][3]]

\* The dict save_session pickles: {'cookie': api.cookie_jar, 'settings': api.settings}.
SessionDict(api) == <<<<"cookie", api.cookie_jar>>, <<"settings", api.settings>>>>

\* `with open(SESSION_FILE, 'wb') as f: pickle.dump(d, f)`: open fails and
\* the file is untouched; or open has truncated the file and the write stops
\* after e.cut opcodes; or the whole pickle is written.
write_file(st, d, e) ==
    CASE e.fs = "open_fail" -> [store |-> st, exc |-> "OSError"]
      [] e.fs = "write_fail" ->
            [store |-> File(SubSeq(pickle_dump(d), 1, e.cut)), exc |-> "OSError"]
      [] OTHER -> [store |-> File(pickle_dump(d)), exc |-> "none"]

\* --------------------------------------------------------------- contexts

\* What a run has done so far.
Ctx0(st, op, e) ==
    [op          |-> op,
     store       |-> st,
     storeBefore |-> st,
     msgs        |-> {},
     loadCalled  |-> FALSE,
     loadExc     |-> "none",
     loaded      |-> None,
     probe       |-> "none",
     sessionValid|-> (e.probe = "ok"),
     logins      |-> 0,
     loginOut    |-> "none",
     loginClient |-> None,
     saved       |-> "none",
     ret         |-> None,
     exc         |-> "none",
     uploaded    |-> FALSE,
     uploadClient|-> None]

Res(c, ret, exc) == [c |-> c, ret |-> ret, exc |-> exc]

Say(c, m) == [c EXCEPT !.msgs = @ \cup {m}]

\* ------------------------------------------------- shared by both scripts

\* A function whose last call returned r: it passes r's exception on, or
\* returns v.
Returning(r, v) ==
    IF r.exc # "none" THEN Res(r.c, None, r.exc) ELSE Res(r.c, v, "none")

\* The context at the end of get_api, whose result is g.
Close(g) == [g.c EXCEPT !.ret = g.ret, !.exc = g.exc]

\* What a call of load_session gave its caller, noted in the context.
Loaded(l) == [l EXCEPT !.c.loadExc = l.exc]

\* Lines 27-28 of app.py, 29-30 of app2.py: write the pickle of the
\* client's bundle to SESSION_FILE.
dump_session(c, w) ==
    Res([c EXCEPT !.store = w.store,
                  !.saved = IF w.exc = "none" THEN "ok" ELSE "failed"],
        None, w.exc)

\* Lines 31-38 of app.py, 38-45 of app2.py: open the file, unpickle it and
\* build the Client from data['settings'] and data[cookieKey].
read_session(c, cookieKey) ==
    IF ~c.store.exists THEN Res(c, None, "FileNotFoundError")
    ELSE IF ~pickle_ok(c.store.bytes) THEN Res(c, None, "UnpicklingError")
    ELSE LET data == pickle_load(c.store.bytes) IN
         IF "settings" \notin DOMAIN data \/ cookieKey \notin DOMAIN data
         THEN Res(c, None, "KeyError")
         ELSE Res(c, Client(data["settings"], data[cookieKey]), "none")

\* api.upload_photo / api.video_upload_to_reel with the client get_api
\* returned, and the messages of the handler; c is the context after get_api.
do_upload(c, e, okMsg, errMsg) ==
    LET c2 == [c EXCEPT !.uploaded = TRUE, !.uploadClient = c.ret] IN
    IF e.upload # "ok" THEN Say(c2, errMsg)
    ELSE Say(IF e.tagFail THEN Say(c2, "warn_tag") ELSE c2, okMsg)

\* ----------------------------------------------------------------- app.py

save_session_app(c, api, e) ==
    dump_session(c, write_file(c.store, SessionDict(api), e))

load_session_app(c) == read_session([c EXCEPT !.loadCalled = TRUE], "cookie")

login_app(c, e) ==
    LET out == e.login[1]
        c1  == [c EXCEPT !.logins = @ + 1, !.loginOut = out]
        api == Client(e.session, e.session)
    IN IF out # "ok" THEN Res(c1, None, out)
       ELSE Returning(save_session_app([c1 EXCEPT !.loginClient = api], api, e), api)

\* The tail of get_api: st.info("Logging in...") and return login().
relogin_app(c, e) == login_app(Say(c, "info_logging_in"), e)

\* A variant of expired_app that clears the session file before the re-login.
expired_app_invalidate(c, e) ==
    relogin_app(Say([c EXCEPT !.store = NoFile], "warn_session_expired"), e)

\* get_api's `except (ClientCookieExpiredError, ClientLoginError)` body: a
\* warning, then control falls through to the re-login.
expired_app(c, e) == relogin_app(Say(c, "warn_session_expired"), e)

\* get_api's try statement once load_session has given l: an exception of
\* load_session or of the probe api.current_user() meets the except clause.
try_app(l, e) ==
    LET raised == IF l.exc # "none" THEN l.exc ELSE e.probe
        c2 == IF l.exc # "none" THEN l.c
              ELSE [l.c EXCEPT !.loaded = l.ret, !.probe = e.probe]
        h  == ExceptClause(<<"ClientCookieExpiredError", "ClientLoginError">>,
                           imports_app, raised)
    IN CASE raised = "ok" -> Res(Say(c2, "success_saved_session"), l.ret, "none")
         [] raised # "ok" /\ h = "match" -> expired_app(c2, e)
         [] raised # "ok" /\ h = "NameError" -> Res(c2, None, "NameError")
         [] OTHER -> Res(c2, None, raised)

get_api_app(c, e) ==
    IF c.store.exists
    THEN try_app(Loaded(load_session_app(Say(c, "info_loading_session"))), e)
    ELSE relogin_app(c, e)

\* The handler after get_api, c its context: an exception of get_api goes to
\* `except Exception as e: st.error(...)`, else the upload is made.
after_get_api_app(c, e, okMsg, errMsg) ==
    IF c.exc # "none" THEN Say(c, errMsg) ELSE do_upload(c, e, okMsg, errMsg)

handler_app(c, e, okMsg, errMsg) ==
    after_get_api_app(Close(get_api_app(c, e)), e, okMsg, errMsg)

post_app(c, e) == handler_app(c, e, "success_posted", "error_post")

reel_app(c, e) == handler_app(c, e, "success_reel", "error_reel")

\* ---------------------------------------------------------------- app2.py

\* login(retries=3, delay=5): the default number of attempts.
retries == 3

\* save_session's try/except around the write r: st.success, or st.error
\* for any exception, which ends there.
save_report_app2(r) ==
    IF r.exc = "none"
    THEN Res(Say(r.c, "success_session_saved"), None, "none")
    ELSE Res(Say(r.c, "error_saving_session"), None, "none")

save_session_app2(c, api, e) ==
    save_report_app2(dump_session(c, write_file(c.store, SessionDict(api), e)))

\* load_session's try/except around the read r: None with st.error for any
\* exception, else the client.
load_report_app2(r) ==
    IF r.exc # "none"
    THEN Res(Say(r.c, "error_loading_session"), None, "none")
    ELSE Res(Say(r.c, "info_session_loaded"), r.ret, "none")

load_session_app2(c) ==
    IF c.store.exists
    THEN load_report_app2(read_session([c EXCEPT !.loadCalled = TRUE], "cookie_jar"))
    ELSE Res(Say([c EXCEPT !.loadCalled = TRUE], "info_session_not_found"), None, "none")

\* After save_session returned r in login: st.success and return api.
logged_in_app2(r, api) == Res(Say(r.c, "success_logged_in"), api, "none")

\* The body of login's for loop from iteration `attempt` on.
RECURSIVE login_from(_, _, _)
login_from(c, e, attempt) ==
    IF attempt >= retries THEN Res(c, None, "none")
    ELSE
      LET out == e.login[attempt + 1]
          c1  == [c EXCEPT !.logins = @ + 1, !.loginOut = out]
          api == Client(e.session, e.session)
          h1  == ExceptClause(<<"ClientLoginError">>, imports_app2, out)
          h2  == ExceptClause(<<"ClientCheckpointChallengeError">>, imports_app2, out)
          c2  == Say(Say(c1, "warn_checkpoint"), "warn_retrying")
      IN CASE out = "ok" ->
                logged_in_app2(
                    save_session_app2([c1 EXCEPT !.loginClient = api], api, e), api)
           [] out # "ok" /\ h1 = "NameError" -> Res(c1, None, "NameError")
           [] out # "ok" /\ h1 = "match" -> Res(Say(c1, "error_login"), None, "none")
           [] out # "ok" /\ h1 = "nomatch" /\ h2 = "NameError" ->
                Res(c1, None, "NameError")
           [] out # "ok" /\ h1 = "nomatch" /\ h2 = "match" ->
                IF attempt + 1 = retries
                THEN Res(Say(c2, "error_max_retries"), None, "none")
                ELSE login_from(c2, e, attempt + 1)
           [] OTHER -> Res(Say(c1, "error_unexpected_login"), None, "none")

login_app2(c, e) == login_from(c, e, 0)

\* get_api once load_session has given l: `if api:` the probe inside the try
\* statement, else login().
try_app2(l, e) ==
    LET c2 == [l.c EXCEPT !.loaded = l.ret, !.probe = e.probe]
        h  == ExceptClause(<<"ClientCookieExpiredError", "ClientLoginError">>,
                           imports_app2, e.probe)
    IN CASE l.ret = None -> login_app2(l.c, e)
         [] l.ret # None /\ e.probe = "ok" ->
              Res(Say(c2, "info_using_existing"), l.ret, "none")
         [] l.ret # None /\ e.probe # "ok" /\ h = "NameError" ->
              Res(c2, None, "NameError")
         [] l.ret # None /\ e.probe # "ok" /\ h = "match" ->
              login_app2(Say(c2, "warn_session_expired"), e)
         [] OTHER -> Res(Say(c2, "error_checking_session"), None, "none")

get_api_app2(c, e) == try_app2(Loaded(load_session_app2(c)), e)

\* A variant of after_get_api_app2 without the `if api:` test before the upload.
after_get_api_app2_unchecked(c, e, okMsg, errMsg) ==
    IF c.exc # "none" THEN Say(c, errMsg) ELSE do_upload(c, e, okMsg, errMsg)

\* The handler after get_api, c its context: `if api:` the upload, else an
\* error; an exception goes to `except Exception as e: st.error(...)`.
after_get_api_app2(c, e, okMsg, errMsg) ==
    IF c.exc # "none" THEN Say(c, errMsg)
    ELSE IF c.ret = None THEN Say(c, "error_auth_failed")
    ELSE do_upload(c, e, okMsg, errMsg)

handler_app2(c, e, okMsg, errMsg) ==
    after_get_api_app2(Close(get_api_app2(c, e)), e, okMsg, errMsg)

post_app2(c, e) == handler_app2(c, e, "success_posted", "error_post")

reel_app2(c, e) == handler_app2(c, e, "success_reel", "error_reel")

\* ------------------------------------------------------------ environment

FsOutcomes == {"ok", "open_fail", "write_fail"}

ProbeOutcomes == {"ok", "ClientCookieExpiredError", "ClientLoginError", "ClientError"}

LoginOutcomes == {"ok", "ClientLoginError", "ClientCheckpointRequiredError", "ConnectionError"}

\* The dicts a session file may hold: what save_session writes, the layout
\* app2.py's load_session reads, and a dict lacking a field.
Dicts ==
    {SessionDict(a) : a \in Clients}
      \cup {<<<<"cookie_jar", a.cookie_jar>>, <<"settings", a.settings>>>> : a \in Clients}
      \cup {<<<<"settings", s>>>> : s \in Sessions}

\* The states the session file can be found in at the first run: absent, a
\* complete pickle, or a truncated one.
Stores ==
    {NoFile}
      \cup {File(pickle_dump(d)) : d \in Dicts}
      \cup {File(SubSeq(pickle_dump(d), 1, n)) : d \in Dicts, n \in 0..2}

\* ------------------------------------------------- script runs: temp files

DirNames == 1..MaxDir

\* A file path: os.path.join(temp_dir, name).
Path(d, n) == [dir |-> d, name |-> n]

\* No path: the key 'audio_clip_path' is not in st.session_state.
NoPath == [dir |-> 0, name |-> ""]

\* The temporary directories and files on disk before the first run.
Tmp0 == [dirs |-> {}, files |-> {}]

\* What the last script run did; before the first run nothing is rendered.
Script0 ==
    [temp_dir         |-> 0,
     song             |-> FALSE,
     uploaded         |-> FALSE,
     audio_downloaded |-> FALSE,
     wrote            |-> FALSE,
     staleBefore      |-> FALSE,
     read             |-> FALSE,
     readPath         |-> NoPath,
     readExists       |-> FALSE,
     composed         |-> FALSE,
     aborted          |-> FALSE,
     removed          |-> FALSE,
     buttons          |-> {}]

Init ==
    /\ variant \in {"app", "app2"}
    /\ store \in Stores
    /\ last = Ctx0(store, "none", [probe |-> "none"])
    /\ session_state = [audio_clip_path |-> NoPath]
    /\ tmp = Tmp0
    /\ script = Script0

\* Whether login makes another attempt after one that ended with `out`: only
\* app2.py's login has a loop, and it goes on only from the checkpoint clause.
Retried(out) ==
    /\ variant = "app2"
    /\ ExceptClause(<<"ClientLoginError">>, imports_app2, out) = "nomatch"
    /\ ExceptClause(<<"ClientCheckpointChallengeError">>, imports_app2, out) = "match"

\* The session file holds a bundle, under the key either script uses for the
\* cookie jar: there is a session for the account service to accept or not.
HoldsBundle(st) ==
    /\ st.exists
    /\ pickle_ok(st.bytes)
    /\ "settings" \in DOMAIN pickle_load(st.bytes)
    /\ {"cookie", "cookie_jar"} \cap DOMAIN pickle_load(st.bytes) # {}

\* The handler of the pressed button, in the script that runs.
Handle(c, e) ==
    CASE variant = "app" /\ c.op = "post" -> post_app(c, e)
      [] variant = "app" /\ c.op = "reel" -> reel_app(c, e)
      [] variant = "app2" /\ c.op = "post" -> post_app2(c, e)
      [] OTHER -> reel_app2(c, e)

\* One run of the handler of button op with every input the run can meet: the answer of
\* the validation probe, of each login attempt, of the file system when the
\* session is saved, and of the upload.  An input no path of the run reads
\* is left at one value.
Run(op) ==
    \E probe \in IF HoldsBundle(store) THEN ProbeOutcomes ELSE {"none"},
       l1 \in LoginOutcomes, upload \in {"ok", "fail"} :
     \E l2 \in IF Retried(l1) THEN LoginOutcomes ELSE {l1} :
      \E l3 \in IF Retried(l1) /\ Retried(l2) THEN LoginOutcomes ELSE {l2} :
       \E fs \in IF "ok" \in {l1, l2, l3} THEN FsOutcomes ELSE {"ok"},
          session \in IF "ok" \in {l1, l2, l3} THEN Sessions ELSE {1},
          tagFail \in IF op = "reel" /\ variant = "app" /\ upload = "ok"
                     THEN BOOLEAN ELSE {FALSE} :
        \E cut \in IF fs = "write_fail" THEN 0..3 ELSE {0} :
          LET e == [fs |-> fs, cut |-> cut, probe |-> probe, login |-> <<l1, l2, l3>>,
                    session |-> session, upload |-> upload, tagFail |-> tagFail]
              c == Handle(Ctx0(store, op, e), e)
          IN /\ store' = c.store
             /\ last' = c
             /\ UNCHANGED <<variant, session_state, tmp, script>>

PostToInstagram_app == variant = "app" /\ Run("post")

UploadReels_app == variant = "app" /\ Run("reel")

PostToInstagram_app2 == variant = "app2" /\ Run("post")

UploadReels_app2 == variant = "app2" /\ Run("reel")

Next ==
    \/ PostToInstagram_app
    \/ UploadReels_app
    \/ PostToInstagram_app2
    \/ UploadReels_app2

Spec == Init /\ [][Next]_vars

\* ------------------------------------------ whole script runs (SpecRerun)

\* Spec follows the session file through the runs in which a button is
\* pressed.  SpecRerun follows every run of the script from its first line to
\* its last: the temporary directory, st.session_state, the widgets.  An
\* exception no try statement catches ends the run where it is raised.

\* download_audio_from_youtube: track.mp3 is there afterwards, or is not, or
\* the call raises (subprocess.run cannot start yt-dlp).
DownloadOutcomes == {"ok", "fail", "raise"}

\* How the audio block of lines 137-155 can go: through, or with an exception
\* of AudioSegment.from_file (before audio_downloaded is set), of the slider
\* or trimmed.export (after it is set), or of st.audio (after the export).
AudioOutcomes == {"ok", "raise_load", "raise_trim", "raise_preview"}

\* The run's state at its first lines: temp_dir = tempfile.mkdtemp() gave
\* directory d, audio_downloaded = False; c is the session context.
start_run(d, song, uploaded, c) ==
    [tmp              |-> [dirs |-> tmp.dirs \cup {d}, files |-> tmp.files],
     ss               |-> session_state,
     sess             |-> c,
     temp_dir         |-> d,
     song             |-> song,
     uploaded         |-> uploaded,
     audio_downloaded |-> FALSE,
     wrote            |-> FALSE,
     staleBefore      |-> /\ session_state.audio_clip_path # NoPath
                          /\ session_state.audio_clip_path \notin tmp.files,
     read             |-> FALSE,
     readPath         |-> NoPath,
     readExists       |-> FALSE,
     composed         |-> FALSE,
     aborted          |-> FALSE,
     removed          |-> FALSE,
     buttons          |-> {}]

\* `if song_name:` the download, and when track.mp3 is there the trim and
\* st.session_state['audio_clip_path'] = trimmed_path.
audio_section(k, i) ==
    LET track   == Path(k.temp_dir, "track.mp3")
        preview == Path(k.temp_dir, "preview.mp3")
        k1 == [k EXCEPT !.tmp.files = @ \cup {track}]
        k2 == [k1 EXCEPT !.audio_downloaded = TRUE]
        k3 == [k2 EXCEPT !.tmp.files = @ \cup {preview}]
    IN CASE ~k.song \/ i.dl = "fail" -> k
         [] k.song /\ i.dl = "raise" -> [k EXCEPT !.aborted = TRUE]
         [] k.song /\ i.dl = "ok" /\ i.audio = "raise_load" ->
              [k1 EXCEPT !.aborted = TRUE]
         [] k.song /\ i.dl = "ok" /\ i.audio = "raise_trim" ->
              [k2 EXCEPT !.aborted = TRUE]
         [] k.song /\ i.dl = "ok" /\ i.audio = "raise_preview" ->
              [k3 EXCEPT !.aborted = TRUE]
         [] OTHER -> [k3 EXCEPT !.ss.audio_clip_path = preview, !.wrote = TRUE]

\* A variant of compose_guard that does not look at audio_downloaded.
compose_guard_any_run(k) == k.ss.audio_clip_path # NoPath

\* `if "audio_clip_path" in st.session_state and audio_downloaded:`
compose_guard(k) == k.ss.audio_clip_path # NoPath /\ k.audio_downloaded

\* The run after a button handler gave the session context c.
handled(k, c) == [k EXCEPT !.sess = c]

\* The "Post to Instagram" button and, when pressed, its handler.
post_button(k, i, e) ==
    IF i.button = "post"
    THEN handled([k EXCEPT !.buttons = @ \cup {"post"}],
                 Handle(Ctx0(store, "post", e), e))
    ELSE [k EXCEPT !.buttons = @ \cup {"post"}]

\* The "Upload Reels" button and, when pressed, its handler.
reel_button(k, i, e) ==
    IF i.button = "reel"
    THEN handled([k EXCEPT !.buttons = @ \cup {"reel"}],
                 Handle(Ctx0(store, "reel", e), e))
    ELSE [k EXCEPT !.buttons = @ \cup {"reel"}]

\* The composition: AudioFileClip(st.session_state["audio_clip_path"]) reads
\* the file and raises when it is not there; write_videofile may raise; then
\* the reel button.
compose(k, i, e) ==
    LET p  == k.ss.audio_clip_path
        k1 == [k EXCEPT !.read = TRUE, !.readPath = p,
                        !.readExists = (p \in k.tmp.files)]
    IN CASE p \notin k.tmp.files \/ i.compose # "ok" -> [k1 EXCEPT !.aborted = TRUE]
         [] OTHER ->
              reel_button(
                  [k1 EXCEPT !.composed = TRUE,
                             !.tmp.files = @ \cup {Path(k.temp_dir, "final_video.mp4")}],
                  i, e)

\* After the post button: the composition when its guard holds.
compose_section(k, i, e) == IF compose_guard(k) THEN compose(k, i, e) ELSE k

\* `if uploaded_file:` the post button, then the composition.
upload_section(k, i, e) ==
    IF k.aborted \/ ~k.uploaded THEN k
    ELSE compose_section(post_button(k, i, e), i, e)

\* shutil.rmtree(temp_dir, ignore_errors=True), the last line of the script.
cleanup(k) ==
    IF k.aborted THEN k
    ELSE [k EXCEPT !.removed = TRUE,
                   !.tmp = [dirs  |-> k.tmp.dirs \ {k.temp_dir},
                            files |-> {f \in k.tmp.files : f.dir # k.temp_dir}]]

\* The whole script with temp_dir d, widget values song and uploaded, and
\* inputs i and e.
script_run(d, song, uploaded, i, e) ==
    cleanup(
      upload_section(
        audio_section(start_run(d, song, uploaded, Ctx0(store, "none", e)), i),
        i, e))

\* What is kept of a run k for the next one to see.
Observe(k) ==
    [temp_dir         |-> k.temp_dir,
     song             |-> k.song,
     uploaded         |-> k.uploaded,
     audio_downloaded |-> k.audio_downloaded,
     wrote            |-> k.wrote,
     staleBefore      |-> k.staleBefore,
     read             |-> k.read,
     readPath         |-> k.readPath,
     readExists       |-> k.readExists,
     composed         |-> k.composed,
     aborted          |-> k.aborted,
     removed          |-> k.removed,
     buttons          |-> k.buttons]

\* The state a finished (or aborted) run k leaves.
Commit(k) ==
    /\ tmp' = k.tmp
    /\ session_state' = k.ss
    /\ script' = Observe(k)
    /\ store' = k.sess.store
    /\ last' = k.sess
    /\ UNCHANGED variant

\* One run with the widgets at song and uploaded and the given button
\* pressed, with every input the run can meet.  In this specification the
\* session file is always writable and a login attempt either succeeds or
\* ends with ClientLoginError.
ScriptRun(song, uploaded, button) ==
    \E d \in DirNames \ tmp.dirs,
       dl \in IF song THEN DownloadOutcomes ELSE {"fail"},
       compose_out \in IF uploaded THEN {"ok", "raise"} ELSE {"ok"},
       l \in IF button # "none" THEN {"ok", "ClientLoginError"} ELSE {"ok"},
       up \in IF button # "none" THEN {"ok", "fail"} ELSE {"ok"} :
      \E audio \in IF dl = "ok" THEN AudioOutcomes ELSE {"ok"} :
        Commit(script_run(d, song, uploaded,
                 [dl |-> dl, audio |-> audio, compose |-> compose_out, button |-> button],
                 [fs |-> "ok", cut |-> 0,
                  probe |-> IF HoldsBundle(store) THEN "ok" ELSE "none",
                  login |-> <<l, l, l>>, session |-> 1, upload |-> up,
                  tagFail |-> FALSE]))

\* The user changes the song name or the uploaded file (or the slider): the
\* script reruns with no button pressed.
Rerun_Widget == \E song \in BOOLEAN, uploaded \in BOOLEAN : ScriptRun(song, uploaded, "none")

\* The user presses "Post to Instagram", which the last run rendered: the
\* script reruns with the widgets as they were.
Rerun_Post ==
    /\ "post" \in script.buttons
    /\ ScriptRun(script.song, script.uploaded, "post")

\* The user presses "Upload Reels", which the last run rendered.
Rerun_Reel ==
    /\ "reel" \in script.buttons
    /\ ScriptRun(script.song, script.uploaded, "reel")

InitRerun ==
    /\ variant \in {"app", "app2"}
    /\ store = NoFile
    /\ last = Ctx0(store, "none", [probe |-> "none"])
    /\ session_state = [audio_clip_path |-> NoPath]
    /\ tmp = Tmp0
    /\ script = Script0

NextRerun ==
    \/ Rerun_Widget
    \/ Rerun_Post
    \/ Rerun_Reel

SpecRerun == InitRerun /\ [][NextRerun]_vars

\* ------------------------------------------------------------------ claims

\* A handler has run.
Ran == last.op # "none"

\* load_session of the running script on session file st.
LoadNow(st) ==
    IF variant = "app" THEN load_session_app([last EXCEPT !.store = st])
    ELSE load_session_app2([last EXCEPT !.store = st])

\* The file save_session writes for client a.
Saved(a) == File(pickle_dump(SessionDict(a)))

\* The session file holds a bundle as save_session writes it.
Written(st) == \E a \in Clients : st = Saved(a)

\* The session file exists and load_session cannot build a client from it.
Corrupt(st) ==
    /\ st.exists
    /\ \/ ~pickle_ok(st.bytes)
       \/ LET data == pickle_load(st.bytes)
          IN \/ "settings" \notin DOMAIN data
             \/ (IF variant = "app" THEN "cookie" ELSE "cookie_jar") \notin DOMAIN data

\* A bundle was loaded and its validation probe api.current_user() failed.
ProbeFailed == last.loaded # None /\ last.probe \notin {"none", "ok"}

\* The messages that report an error to the user.
ErrorMsgs ==
    {"error_post", "error_reel", "error_auth_failed", "error_login",
     "error_max_retries", "error_unexpected_login", "error_saving_session"}

\* C1: round trip of the session cache: after save_session has written the
\* bundle of a client, load_session on the resulting file returns a client
\* with exactly that bundle (no exception, not None), in app.py and app2.py.
C1_RoundTrip ==
    last.saved = "ok" =>
        /\ store = Saved(last.loginClient)
        /\ LoadNow(store).exc = "none"
        /\ LoadNow(store).ret = last.loginClient

\* C2: load_session fails closed: whatever the state of the session file,
\* a call of load_session raises no exception to its caller.
C2_LoadNeverRaises == last.loadCalled => last.loadExc = "none"

\* C3: get_api treats a corrupt session file like an absent one: it makes a
\* fresh login and, when login and save succeed, returns the logged-in
\* client and has rewritten the file.
C3_CorruptLikeAbsent ==
    (Ran /\ Corrupt(last.storeBefore)) =>
        /\ last.logins >= 1
        /\ (last.loginOut = "ok" /\ last.saved = "ok") =>
              /\ last.exc = "none"
              /\ last.ret = last.loginClient
              /\ store = Saved(last.loginClient)

\* C4: a failed save leaves the session file as it was before the call.
C4_FailedSaveKeepsStore == last.saved = "failed" => store = last.storeBefore

\* C5: wholesale overwrite on re-login: from a file holding a saved bundle
\* whose session the service no longer accepts, a run in which login
\* succeeds with bundle B2 and B2 is saved leaves exactly B2 in the file, and
\* a subsequent load_session returns exactly B2.
C5_WholesaleOverwrite ==
    (/\ Written(last.storeBefore)
     /\ ~last.sessionValid
     /\ last.loginOut = "ok"
     /\ last.saved = "ok") =>
        /\ store = Saved(last.loginClient)
        /\ LoadNow(store).exc = "none"
        /\ LoadNow(store).ret = last.loginClient

\* C6: exactly one login attempt in a get_api invocation in which a bundle
\* was loaded and its validation probe failed, whatever the failure.
C6_OneReloginPerFailedProbe == ProbeFailed => last.logins = 1

\* C7: a failed save is reported but does not block: when login succeeds and
\* save_session fails, the user is told, get_api returns the logged-in
\* client and the upload is attempted with it.
C7_FailedSaveNonBlocking ==
    (last.loginOut = "ok" /\ last.saved = "failed") =>
        /\ last.msgs \cap ErrorMsgs # {}
        /\ last.exc = "none"
        /\ last.ret = last.loginClient
        /\ last.uploaded
        /\ last.uploadClient = last.loginClient

\* C8: login failure is fatal to the operation: an upload is made only with
\* a client that passed the validation probe or came from a successful
\* login of the same get_api invocation; when login fails there is no upload
\* and an error message is shown.
C8_UploadOnlyAuthenticated ==
    /\ last.uploaded =>
          /\ last.uploadClient # None
          /\ \/ last.probe = "ok" /\ last.uploadClient = last.loaded
             \/ last.loginOut = "ok" /\ last.uploadClient = last.loginClient
    /\ (last.logins >= 1 /\ last.loginOut # "ok") =>
          /\ ~last.uploaded
          /\ last.msgs \cap ErrorMsgs # {}

\* C8 witness: a run whose login failed, and which showed an error.
C8_Witness_LoginFailed ==
    /\ last.logins >= 1
    /\ last.loginOut = "ClientLoginError"
    /\ ~last.uploaded
    /\ last.msgs \cap ErrorMsgs # {}

\* C9 as stated: once the probe of a loaded bundle has failed and no login
\* succeeded, the session file is gone.
C9_ExpiryEmptiesCache ==
    (ProbeFailed /\ last.loginOut # "ok") => ~store.exists

\* C9 amended: a failed probe does not clear the session file.  When no
\* login succeeds afterwards the file is what it was, and load_session still
\* returns the expired bundle; the file changes only in a save_session that
\* follows a login the account service accepted.
C9_ExpiredBundleKept ==
    /\ (ProbeFailed /\ last.loginOut # "ok") =>
          /\ store = last.storeBefore
          /\ LoadNow(store).ret = last.loaded
    /\ (Ran /\ store # last.storeBefore) =>
          /\ last.loginOut = "ok"
          /\ last.saved # "none"
          /\ store.exists

\* C9 witness: the probe reported the cookie expired and the one re-login
\* failed.
C9_Witness_ExpiredLoginFailed ==
    /\ last.loaded # None
    /\ last.probe = "ClientCookieExpiredError"
    /\ last.logins = 1
    /\ last.loginOut = "ClientLoginError"
    /\ store.exists

\* C10: a valid cached session is reused as it is: from a file written by
\* save_session whose session the service accepts, get_api returns the
\* client of the stored bundle, makes no login and leaves the file alone.
C10_ValidSessionReused ==
    (Ran /\ Written(last.storeBefore) /\ last.sessionValid) =>
        /\ last.exc = "none"
        /\ Saved(last.ret) = last.storeBefore
        /\ last.logins = 0
        /\ store = last.storeBefore

\* C11: bounded checkpoint retry in app2.py's login: a call of login makes
\* between 1 and `retries` attempts and ends by returning a client or None,
\* never by raising to get_api; when the last attempt ended with a checkpoint
\* challenge, all `retries` attempts were made and None is returned; any
\* other failed attempt gives None.
C11_BoundedCheckpointRetry ==
    (variant = "app2" /\ last.logins >= 1) =>
        /\ last.exc = "none"
        /\ last.logins \in 1..retries
        /\ last.ret \in {None, last.loginClient}
        /\ last.loginOut = "ClientCheckpointRequiredError" =>
              (last.logins = retries /\ last.ret = None)
        /\ last.loginOut \notin {"ok", "ClientCheckpointRequiredError"} =>
              last.ret = None

\* C12: across script reruns the composition step reads
\* st.session_state['audio_clip_path'] only when this same run wrote it: the
\* path read is preview.mp3 in this run's temp_dir and the file is there, so
\* the step never reads a path into a directory an earlier run deleted.  A
\* run that reaches its last line has deleted its temp_dir, while the path
\* in st.session_state stays.
C12_ComposeReadsOwnRunPath ==
    /\ script.read =>
          /\ script.audio_downloaded
          /\ script.wrote
          /\ script.readPath = Path(script.temp_dir, "preview.mp3")
          /\ script.readExists
    /\ script.removed =>
          /\ script.temp_dir \notin tmp.dirs
          /\ \A f \in tmp.files : f.dir # script.temp_dir
          /\ script.wrote => session_state.audio_clip_path.name = "preview.mp3"

\* C12 witness: st.session_state held a path whose file an earlier run had
\* deleted, and this run composed with the path it wrote itself.
C12_Witness_StaleThenFresh ==
    /\ script.staleBefore
    /\ script.read
    /\ script.composed
    /\ script.removed

====
